---- MODULE Spec2Model ----
(***************************************************************************)
(* Model of flexlib.FlexPath (src/flexlib/flexpath.py) and of               *)
(* flexlib.FlexDict (src/flexlib/flexdict.py).                             *)
(*                                                                         *)
(* A path text is a sequence of one-character strings.  The os.path        *)
(* functions FlexPath calls (normpath, join, isabs, dirname, commonpath,   *)
(* relpath, abspath) are written out as CPython's posixpath computes them, *)
(* under the names they have there.                                        *)
(***************************************************************************)
EXTENDS Integers, Sequences, FiniteSets, TLC

VARIABLES
    cur,        \* the FlexPath the caller holds
    cwd,        \* the working directory of the process
    pc,         \* where the caller is: "ready", "loop" or "returned"
    op,         \* the last call
    args,       \* its arguments
    out,        \* its outcome
    loop_p,     \* p in the loop of FlexPath.parents
    loop_res,   \* res in the loop of FlexPath.parents
    loop_par,   \* par in the loop of FlexPath.parents
    fd,         \* the FlexDict the caller holds
    before,     \* fd as it was when the last call began (fd between calls)
    files       \* the filesystem: what each path names

\* the locals of the loop of FlexPath.parents
loopvars == <<loop_p, loop_res, loop_par>>

\* the FlexDict
dictvars == <<fd, before>>

vars == <<cur, cwd, pc, op, args, out, loopvars, dictvars, files>>

\* ------------------------------------------------------------------------
\* Bounds and input sets

\* longest text given to the constructor, and longest FlexPath kept
MaxLen == 5
\* longest total text of the fragments given to one method call
MaxFrag == 2

\* the characters path texts are made of
Chars == {"/", ".", "a"}

\* ord() of a character, for Python's ordering of strings
Rank(c) == CASE c = "." -> 46 [] c = "/" -> 47 [] OTHER -> 97

Strs(n) == UNION {[1..k -> Chars] : k \in 0..n}

\* the directories the process can have as working directory
Dirs == {<<"/">>, <<"/", "a", "/", "a">>}

Frags == Strs(MaxFrag)

\* the argument tuples of a *others call: none, one or two fragments
Others ==
    {<<>>} \cup {<<f>> : f \in Frags}
    \cup {fg \in Frags \X Frags : Len(fg[1]) + Len(fg[2]) <= MaxFrag}

\* ------------------------------------------------------------------------
\* str methods

sep == "/"
dot == <<".">>
dotdot == <<".", ".">>

startswith(s, p) == Len(s) >= Len(p) /\ SubSeq(s, 1, Len(p)) = p

endswith(s, p) == Len(s) >= Len(p) /\ SubSeq(s, Len(s) - Len(p) + 1, Len(s)) = p

\* s.split("/")
RECURSIVE split(_)
split(s) ==
    IF \A i \in 1..Len(s) : s[i] # sep THEN <<s>>
    ELSE LET i == CHOOSE k \in 1..Len(s) :
                      s[k] = sep /\ \A j \in 1..(k - 1) : s[j] # sep
         IN <<SubSeq(s, 1, i - 1)>> \o split(SubSeq(s, i + 1, Len(s)))

\* "/".join(comps)
RECURSIVE sepjoin(_)
sepjoin(comps) ==
    IF comps = <<>> THEN <<>>
    ELSE IF Len(comps) = 1 THEN comps[1]
    ELSE comps[1] \o <<sep>> \o sepjoin(Tail(comps))

\* s.rstrip("/")
RECURSIVE rstrip(_)
rstrip(s) ==
    IF s # <<>> /\ s[Len(s)] = sep THEN rstrip(SubSeq(s, 1, Len(s) - 1)) ELSE s

\* s.rfind(c), 0-based, -1 when c does not occur
rfind(s, c) ==
    IF \A i \in 1..Len(s) : s[i] # c THEN -1
    ELSE (CHOOSE i \in 1..Len(s) :
              s[i] = c /\ \A j \in (i + 1)..Len(s) : s[j] # c) - 1

\* c * n
RECURSIVE repeat(_, _)
repeat(c, n) == IF n <= 0 THEN <<>> ELSE <<c>> \o repeat(c, n - 1)

\* a < b on str
RECURSIVE StrLess(_, _)
StrLess(a, b) ==
    IF b = <<>> THEN FALSE
    ELSE IF a = <<>> THEN TRUE
    ELSE IF a[1] # b[1] THEN Rank(a[1]) < Rank(b[1])
    ELSE StrLess(Tail(a), Tail(b))

\* a < b on lists of str
RECURSIVE ListLess(_, _)
ListLess(a, b) ==
    IF b = <<>> THEN FALSE
    ELSE IF a = <<>> THEN TRUE
    ELSE IF a[1] # b[1] THEN StrLess(a[1], b[1])
    ELSE ListLess(Tail(a), Tail(b))

\* ------------------------------------------------------------------------
\* os.path (posixpath)

isabs(s) == startswith(s, <<sep>>)

\* the number of leading slashes normpath keeps: POSIX allows one or two
\* initial slashes, but treats three or more as a single slash
initial_slashes(path) ==
    IF ~startswith(path, <<sep>>) THEN 0
    ELSE IF startswith(path, <<sep, sep>>) /\ ~startswith(path, <<sep, sep, sep>>)
         THEN 2
    ELSE 1

\* the loop of normpath over the split components
RECURSIVE new_comps(_, _, _)
new_comps(comps, slashes, acc) ==
    IF comps = <<>> THEN acc
    ELSE LET comp == comps[1]
             rest == Tail(comps)
         IN IF comp = <<>> \/ comp = dot THEN new_comps(rest, slashes, acc)
            ELSE IF \/ comp # dotdot
                    \/ (slashes = 0 /\ acc = <<>>)
                    \/ (acc # <<>> /\ acc[Len(acc)] = dotdot)
                 THEN new_comps(rest, slashes, Append(acc, comp))
            ELSE IF acc # <<>>
                 THEN new_comps(rest, slashes, SubSeq(acc, 1, Len(acc) - 1))
            ELSE new_comps(rest, slashes, acc)

normpath(path) ==
    IF path = <<>> THEN dot
    ELSE LET n == initial_slashes(path)
             joined == sepjoin(new_comps(split(path), n, <<>>))
             p == IF n > 0 THEN repeat(sep, n) \o joined ELSE joined
         IN IF p = <<>> THEN dot ELSE p

\* os.path.join(a, *p), with the fragments p given as a sequence
RECURSIVE join(_, _)
join(a, p) ==
    IF p = <<>> THEN a
    ELSE LET b == p[1]
         IN IF startswith(b, <<sep>>) THEN join(b, Tail(p))
            ELSE IF a = <<>> \/ endswith(a, <<sep>>) THEN join(a \o b, Tail(p))
            ELSE join(a \o <<sep>> \o b, Tail(p))

\* os.path.dirname
dirname(p) ==
    LET i == rfind(p, sep) + 1
        head == SubSeq(p, 1, i)
    IN IF head # <<>> /\ head # repeat(sep, Len(head)) THEN rstrip(head) ELSE head

\* os.path.abspath under working directory d
abspath(path, d) ==
    IF ~isabs(path) THEN normpath(join(d, <<path>>)) ELSE normpath(path)

\* [c for c in s.split("/") if c]
nonempty(comps) == SelectSeq(comps, LAMBDA c : c # <<>>)

\* genericpath.commonprefix of two lists
RECURSIVE prefix_of(_, _)
prefix_of(s1, s2) ==
    IF s1 = <<>> \/ s2 = <<>> \/ s1[1] # s2[1] THEN <<>>
    ELSE <<s1[1]>> \o prefix_of(Tail(s1), Tail(s2))

commonprefix(a, b) ==
    LET s1 == IF ListLess(b, a) THEN b ELSE a
        s2 == IF ListLess(b, a) THEN a ELSE b
    IN prefix_of(s1, s2)

\* os.path.commonpath([a, b]): a record, ok = FALSE for its ValueError
commonpath(a, b) ==
    IF (SubSeq(a, 1, 1) = <<sep>>) # (SubSeq(b, 1, 1) = <<sep>>)
    THEN [ok |-> FALSE, path |-> <<>>]
    ELSE LET keep(c) == c # <<>> /\ c # dot
             la == SelectSeq(split(a), keep)
             lb == SelectSeq(split(b), keep)
             s1 == IF ListLess(lb, la) THEN lb ELSE la
             s2 == IF ListLess(lb, la) THEN la ELSE lb
             common == prefix_of(s1, s2)
             prefix == IF SubSeq(a, 1, 1) = <<sep>> THEN <<sep>> ELSE <<>>
         IN [ok |-> TRUE, path |-> prefix \o sepjoin(common)]

\* os.path.relpath(path, start) under working directory d
relpath(path, start, d) ==
    LET start_list == nonempty(split(abspath(start, d)))
        path_list == nonempty(split(abspath(path, d)))
        i == Len(commonprefix(start_list, path_list))
        ups == [k \in 1..(Len(start_list) - i) |-> dotdot]
        rel_list == ups \o SubSeq(path_list, i + 1, Len(path_list))
    IN IF rel_list = <<>> THEN dot ELSE join(rel_list[1], Tail(rel_list))

\* ------------------------------------------------------------------------
\* FlexPath

\* FlexPath.__new__ with the preserved-empty test on the wrong text
FlexPathNewDotTest(s) == IF s = dot THEN <<>> ELSE normpath(s)

\* FlexPath.__new__: the text of FlexPath(s)
FlexPathNew(s) == IF s = <<>> THEN <<>> ELSE normpath(s)

_wrap(value) == FlexPathNew(value)

\* ------------------------------------------------------------------------
\* Outcomes of a call

NoOut == [kind |-> "none", val |-> <<>>, vals |-> <<>>, why |-> ""]

PathOut(t) == [kind |-> "path", val |-> t, vals |-> <<>>, why |-> ""]

PathsOut(ts) == [kind |-> "paths", val |-> <<>>, vals |-> ts, why |-> ""]

ValueError(w) == [kind |-> "ValueError", val |-> <<>>, vals |-> <<>>, why |-> w]

\* a str returned by a property
StrOut(t) == [kind |-> "str", val |-> t, vals |-> <<>>, why |-> ""]

\* a tuple or list of str returned by a property
StrsOut(ts) == [kind |-> "strs", val |-> <<>>, vals |-> ts, why |-> ""]

\* FlexPath._is_abs
_is_abs(s) == startswith(s, <<sep>>)

\* FlexPath._split_parts that leaves the root marker out
_split_partsNoRoot(s) ==
    IF s = <<>> THEN <<>>
    ELSE IF s = <<sep>> THEN <<(<<sep>>)>>
    ELSE SelectSeq(split(s), LAMBDA c : c # <<>>)

\* FlexPath._split_parts, the parts property
_split_parts(s) ==
    IF s = <<>> THEN <<>>
    ELSE IF s = <<sep>> THEN <<(<<sep>>)>>
    ELSE LET comps == SelectSeq(split(s), LAMBDA c : c # <<>>)
         IN IF startswith(s, <<sep>>) THEN <<(<<sep>>)>> \o comps ELSE comps

\* FlexPath._last_component, the name property
_last_component(s) ==
    IF s = <<sep>> THEN <<sep>>
    ELSE LET r == rstrip(s)
             idx == rfind(r, sep)
         IN IF r = <<>> THEN <<>>
            ELSE IF idx >= 0 THEN SubSeq(r, idx + 2, Len(r)) ELSE r

name(s) == _last_component(s)

\* FlexPath.suffix that leaves the dot out: n[i + 1:]
suffixNoDot(s) ==
    LET n == name(s)
        i == rfind(n, ".")
    IN IF n = <<>> \/ n = <<sep>> THEN <<>>
       ELSE IF i <= 0 THEN <<>>
       ELSE SubSeq(n, i + 2, Len(n))

\* FlexPath.suffix
suffix(s) ==
    LET n == name(s)
        i == rfind(n, ".")
    IN IF n = <<>> \/ n = <<sep>> THEN <<>>
       ELSE IF i <= 0 THEN <<>>
       ELSE SubSeq(n, i + 1, Len(n))

\* n.split(".")
RECURSIVE split_dot(_)
split_dot(n) ==
    IF \A i \in 1..Len(n) : n[i] # "." THEN <<n>>
    ELSE LET i == CHOOSE k \in 1..Len(n) :
                      n[k] = "." /\ \A j \in 1..(k - 1) : n[j] # "."
         IN <<SubSeq(n, 1, i - 1)>> \o split_dot(SubSeq(n, i + 1, Len(n)))

\* n.count(".")
count_dot(n) == Cardinality({i \in 1..Len(n) : n[i] = "."})

\* FlexPath.suffixes without the test for a name that is one leading dot
suffixesNoDotfileTest(s) ==
    LET n == name(s)
        parts == split_dot(n)
    IN IF n = <<>> THEN <<>>
       ELSE IF Len(parts) <= 1 THEN <<>>
       ELSE [k \in 1..(Len(parts) - 1) |-> dot \o parts[k + 1]]

\* FlexPath.suffixes
suffixes(s) ==
    LET n == name(s)
        parts == split_dot(n)
    IN IF n = <<>> \/ (startswith(n, dot) /\ count_dot(n) = 1) THEN <<>>
       ELSE IF Len(parts) <= 1 THEN <<>>
       ELSE [k \in 1..(Len(parts) - 1) |-> dot \o parts[k + 1]]

\* FlexPath.stem
stem(s) ==
    LET n == name(s)
        i == rfind(n, ".")
    IN IF n = <<>> \/ n = <<sep>> THEN n
       ELSE IF i <= 0 THEN n
       ELSE SubSeq(n, 1, i)

\* FlexPath.parent
parent(s) ==
    IF s = <<sep>> THEN s
    ELSE LET r == rstrip(s)
             d == dirname(r)
         IN IF r = <<>> THEN _wrap(dot)
            ELSE _wrap(IF d # <<>> THEN d ELSE dot)

\* the loop of FlexPath.parents: res is the list so far, p the current path
RECURSIVE parents_loop(_, _)
parents_loop(p, res) ==
    LET par == parent(p)
    IN IF par = p THEN res
       ELSE IF par = dot THEN res
       ELSE parents_loop(par, Append(res, par))

\* FlexPath.parents
parents(s) == parents_loop(s, <<>>)

\* str(self)[: -len(n)] if len(n) != len(str(self)) else ""
name_base(s, n) == IF Len(n) # Len(s) THEN SubSeq(s, 1, Len(s) - Len(n)) ELSE <<>>

\* FlexPath.with_name without the test for a root or empty receiver
with_nameNoRootTest(s, new) ==
    IF (\E i \in 1..Len(new) : new[i] = sep) \/ new = <<>> THEN ValueError("name")
    ELSE LET p == parent(s)
         IN IF p = dot THEN PathOut(_wrap(new))
            ELSE PathOut(_wrap(p \o <<sep>> \o new))

\* FlexPath.with_name
with_name(s, new) ==
    IF (\E i \in 1..Len(new) : new[i] = sep) \/ new = <<>> THEN ValueError("name")
    ELSE IF s = <<>> \/ s = <<sep>> THEN ValueError("root")
    ELSE LET p == parent(s)
         IN IF p = dot THEN PathOut(_wrap(new))
            ELSE PathOut(_wrap(p \o <<sep>> \o new))

\* FlexPath.with_suffix
with_suffix(s, suf) ==
    LET n == name(s)
        base == name_base(s, n)
        i == rfind(n, ".")
        new_name == IF i <= 0 THEN n \o suf ELSE SubSeq(n, 1, i) \o suf
    IN IF suf # <<>> /\ ~startswith(suf, dot) THEN ValueError("suffix")
       ELSE IF n = <<>> \/ n = <<sep>> THEN ValueError("noname")
       ELSE PathOut(_wrap(base \o new_name))

\* FlexPath.with_stem
with_stem(s, st) ==
    LET n == name(s)
        base == name_base(s, n)
    IN IF (\E i \in 1..Len(st) : st[i] = sep) \/ st = <<>> THEN ValueError("stem")
       ELSE IF n = <<>> \/ n = <<sep>> THEN ValueError("noname")
       ELSE PathOut(_wrap(base \o st \o suffix(s)))

\* FlexPath.joinpath that glues the texts together with "/"
joinpathConcat(s, others) ==
    IF others = <<>> THEN s ELSE _wrap(s \o <<sep>> \o sepjoin(others))

\* FlexPath.joinpath that passes only the first of others to os.path.join
joinpathFirstOnly(s, others) ==
    IF others = <<>> THEN s ELSE _wrap(join(s, <<others[1]>>))

\* FlexPath.joinpath(*others)
joinpath(s, others) == IF others = <<>> THEN s ELSE _wrap(join(s, others))

\* FlexPath.__truediv__: self / other
__truediv__(s, other) == joinpath(s, <<other>>)

\* FlexPath.__rtruediv__: other / self
__rtruediv__(s, other) == _wrap(join(other, <<s>>))

\* FlexPath.relative_to without the test of the anchors
relative_toNoAnchorTest(s, other, d) ==
    LET base == IF other # <<>> THEN join(other[1], Tail(other)) ELSE <<>>
        sp == normpath(s)
        bp == normpath(base)
        common == commonpath(sp, bp)
        rel == relpath(sp, bp, d)
    IN IF ~common.ok THEN ValueError("subpath")
       ELSE IF common.path # bp THEN ValueError("subpath")
       ELSE PathOut(_wrap(IF rel = dot THEN dot ELSE rel))

\* FlexPath.relative_to without the test that the common path is the base
relative_toNoSubpathTest(s, other, d) ==
    LET base == IF other # <<>> THEN join(other[1], Tail(other)) ELSE <<>>
        sp == normpath(s)
        bp == normpath(base)
        common == commonpath(sp, bp)
        rel == relpath(sp, bp, d)
    IN IF isabs(sp) # isabs(bp) THEN ValueError("anchors")
       ELSE IF ~common.ok THEN ValueError("subpath")
       ELSE PathOut(_wrap(IF rel = dot THEN dot ELSE rel))

\* FlexPath.relative_to(*other) under working directory d
relative_to(s, other, d) ==
    LET base == IF other # <<>> THEN join(other[1], Tail(other)) ELSE <<>>
        sp == normpath(s)
        bp == normpath(base)
        common == commonpath(sp, bp)
        rel == relpath(sp, bp, d)
    IN IF isabs(sp) # isabs(bp) THEN ValueError("anchors")
       ELSE IF ~common.ok THEN ValueError("subpath")
       ELSE IF common.path # bp THEN ValueError("subpath")
       ELSE PathOut(_wrap(IF rel = dot THEN dot ELSE rel))

\* ------------------------------------------------------------------------
\* The caller: holds one FlexPath (cur), calls an operation on it, and
\* either keeps a returned path as its new value or lets it go.

Init ==
    /\ cur = <<>>
    /\ cwd = <<"/">>
    /\ pc = "ready"
    /\ op = "none"
    /\ args = <<>>
    /\ out = NoOut
    /\ loop_p = <<>>
    /\ loop_res = <<>>
    /\ loop_par = <<>>
    /\ fd = <<>>
    /\ before = <<>>
    /\ files = <<>>

\* FlexPath(s)
Construct ==
    /\ pc = "ready"
    /\ \E s \in Strs(MaxLen) :
          /\ cur' = FlexPathNew(s)
          /\ args' = <<s>>
          /\ out' = PathOut(FlexPathNew(s))
    /\ op' = "construct"
    /\ pc' = "returned"
    /\ UNCHANGED <<cwd, loopvars, dictvars, files>>

\* os.chdir(d)
Chdir ==
    /\ pc = "ready"
    /\ \E d \in Dirs : cwd' = d
    /\ UNCHANGED <<cur, pc, op, args, out, loopvars, dictvars, files>>

\* a call of a method on cur, with its arguments and its outcome
Call(o, a, r) ==
    /\ pc = "ready"
    /\ pc' = "returned"
    /\ op' = o
    /\ args' = a
    /\ out' = r
    /\ UNCHANGED <<cur, cwd, loopvars, dictvars, files>>

Parts == Call("parts", <<>>, StrsOut(_split_parts(cur)))

Name == Call("name", <<>>, StrOut(name(cur)))

Suffix == Call("suffix", <<>>, StrOut(suffix(cur)))

Suffixes == Call("suffixes", <<>>, StrsOut(suffixes(cur)))

Stem == Call("stem", <<>>, StrOut(stem(cur)))

Parent == Call("parent", <<>>, PathOut(parent(cur)))

Parents == Call("parents", <<>>, PathsOut(parents(cur)))

Joinpath == \E o \in Others : Call("joinpath", o, PathOut(joinpath(cur, o)))

Truediv == \E f \in Frags : Call("truediv", <<f>>, PathOut(__truediv__(cur, f)))

Rtruediv == \E f \in Frags : Call("rtruediv", <<f>>, PathOut(__rtruediv__(cur, f)))

WithName == \E f \in Frags : Call("with_name", <<f>>, with_name(cur, f))

WithSuffix == \E f \in Frags : Call("with_suffix", <<f>>, with_suffix(cur, f))

WithStem == \E f \in Frags : Call("with_stem", <<f>>, with_stem(cur, f))

RelativeTo == \E o \in Others : Call("relative_to", o, relative_to(cur, o, cwd))

\* the paths an outcome holds
Returned(r) ==
    IF r.kind = "path" THEN {r.val}
    ELSE IF r.kind = "paths" THEN {r.vals[i] : i \in 1..Len(r.vals)}
    ELSE {}

\* the caller goes on with a path the call returned
Keep ==
    /\ pc = "returned"
    /\ \E t \in Returned(out) : Len(t) <= MaxLen /\ cur' = t
    /\ pc' = "ready"
    /\ op' = "none"
    /\ args' = <<>>
    /\ out' = NoOut
    /\ loop_p' = <<>>
    /\ loop_res' = <<>>
    /\ loop_par' = <<>>
    /\ UNCHANGED <<cwd, dictvars, files>>

\* the caller goes on with the value it held
Return ==
    /\ pc = "returned"
    /\ pc' = "ready"
    /\ op' = "none"
    /\ args' = <<>>
    /\ out' = NoOut
    /\ loop_p' = <<>>
    /\ loop_res' = <<>>
    /\ loop_par' = <<>>
    /\ before' = fd
    /\ UNCHANGED <<cur, cwd, fd, files>>

Next ==
    \/ Construct
    \/ Chdir
    \/ Parts
    \/ Name
    \/ Suffix
    \/ Suffixes
    \/ Stem
    \/ Parent
    \/ Parents
    \/ Joinpath
    \/ Truediv
    \/ Rtruediv
    \/ WithName
    \/ WithSuffix
    \/ WithStem
    \/ RelativeTo
    \/ Keep
    \/ Return

Spec == Init /\ [][Next]_vars

\* ------------------------------------------------------------------------
\* FlexPath.parents, one turn of its loop at a time

\* the most ancestors the loop is followed through
MaxSteps == 6

\* the loop's exit tests without the one for the root
parents_breakNoRootTest(p, par) == par = dot

\* the two tests that end the loop: par is p itself, or par is "."
parents_break(p, par) == par = p \/ par = dot

\* res = [] ; p = self, and the first par = p.parent
ParentsBegin ==
    /\ pc = "ready"
    /\ pc' = "loop"
    /\ op' = "parents"
    /\ args' = <<>>
    /\ loop_p' = cur
    /\ loop_par' = parent(cur)
    /\ loop_res' = <<>>
    /\ UNCHANGED <<cur, cwd, out, dictvars, files>>

\* a turn of the loop that goes on: res.append(par) ; p = par, and the
\* next par = p.parent
ParentsAppend ==
    /\ pc = "loop"
    /\ Len(loop_res) < MaxSteps
    /\ ~parents_break(loop_p, loop_par)
    /\ loop_res' = Append(loop_res, loop_par)
    /\ loop_p' = loop_par
    /\ loop_par' = parent(loop_par)
    /\ UNCHANGED <<cur, cwd, pc, op, args, out, dictvars, files>>

\* a turn of the loop that breaks, and return tuple(res)
ParentsReturn ==
    /\ pc = "loop"
    /\ parents_break(loop_p, loop_par)
    /\ out' = PathsOut(loop_res)
    /\ pc' = "returned"
    /\ UNCHANGED <<cur, cwd, op, args, loopvars, dictvars, files>>

\* the caller holds any FlexPath it can have constructed
InitParents ==
    /\ cur \in {FlexPathNew(s) : s \in Strs(MaxLen)}
    /\ cwd = <<"/">>
    /\ pc = "ready"
    /\ op = "none"
    /\ args = <<>>
    /\ out = NoOut
    /\ loop_p = <<>>
    /\ loop_res = <<>>
    /\ loop_par = <<>>
    /\ fd = <<>>
    /\ before = <<>>
    /\ files = <<>>

NextParents ==
    \/ ParentsBegin
    \/ ParentsAppend
    \/ ParentsReturn
    \/ Keep
    \/ Return

\* the thread that runs the loop goes on running it
SpecParents ==
    InitParents /\ [][NextParents]_vars
        /\ WF_vars(ParentsAppend) /\ WF_vars(ParentsReturn)

\* ------------------------------------------------------------------------
\* FlexPath.as_uri, on texts that hold characters a URI has to encode

\* longest text a FlexPath is constructed from for as_uri
MaxUri == 3

\* the characters of these texts
UriChars == {"/", ".", "a", " ", ":", "\\"}

UriStrs(n) == UNION {[1..k -> UriChars] : k \in 0..n}

\* ord() of a character
ord(c) ==
    CASE c = " " -> 32 [] c = "!" -> 33 [] c = "*" -> 42 [] c = "." -> 46
      [] c = "/" -> 47 [] c = ":" -> 58 [] c = "?" -> 63 [] c = "A" -> 65
      [] c = "[" -> 91 [] c = "\\" -> 92 [] c = "]" -> 93 [] OTHER -> 97

\* FlexPath.as_posix: str(self).replace("\\", "/")
as_posix(s) == [i \in 1..Len(s) |-> IF s[i] = "\\" THEN "/" ELSE s[i]]

\* FlexPath.is_absolute
is_absolute(s) == isabs(s)

\* urllib.parse._ALWAYS_SAFE, as far as the characters here go
_ALWAYS_SAFE == {"a", "A", ".", "_", "-", "~"}

\* '{:02X}'.format(b)
hex02X(b) ==
    LET digits == <<"0", "1", "2", "3", "4", "5", "6", "7",
                    "8", "9", "A", "B", "C", "D", "E", "F">>
    IN <<digits[(b \div 16) + 1], digits[(b % 16) + 1]>>

\* urllib.parse.quote's quoter for one character (one byte: all are ASCII)
quoter(c, safe) ==
    IF c \in _ALWAYS_SAFE \cup safe THEN <<c>> ELSE <<"%">> \o hex02X(ord(c))

\* urllib.parse.quote(string, safe)
RECURSIVE quote(_, _)
quote(string, safe) ==
    IF string = <<>> THEN <<>>
    ELSE quoter(Head(string), safe) \o quote(Tail(string), safe)

\* FlexPath.as_uri
as_uri(s) ==
    IF ~is_absolute(s) THEN ValueError("relative")
    ELSE StrOut(<<"f", "i", "l", "e", ":", "/", "/">>
                \o quote(as_posix(s), {"/", ":"}))

\* the caller holds any FlexPath it can have constructed from such a text
InitUri ==
    /\ cur \in {FlexPathNew(s) : s \in UriStrs(MaxUri)}
    /\ cwd = <<"/">>
    /\ pc = "ready"
    /\ op = "none"
    /\ args = <<>>
    /\ out = NoOut
    /\ loop_p = <<>>
    /\ loop_res = <<>>
    /\ loop_par = <<>>
    /\ fd = <<>>
    /\ before = <<>>
    /\ files = <<>>

AsUri == Call("as_uri", <<>>, as_uri(cur))

NextUri ==
    \/ AsUri
    \/ Return

SpecUri == InitUri /\ [][NextUri]_vars

\* ------------------------------------------------------------------------
\* FlexPath.match, on texts and patterns with letters of both cases

\* longest text a FlexPath is constructed from for match
MaxText == 3

\* most pieces a pattern is put together from
MaxPieces == 2

\* the characters of these texts
MatchChars == {"/", "a", "A", "\\"}

MatchStrs(n) == UNION {[1..k -> MatchChars] : k \in 0..n}

\* the pieces of the patterns: wildcards, characters, sets, an open bracket
Pieces ==
    { <<"*">>, <<"?">>, <<"a">>, <<"A">>, <<"/">>, <<"\\">>, <<"[">>,
      <<"[", "a", "]">>, <<"[", "!", "a", "]">>,
      <<"[", "a", "A", "]">>, <<"[", "A", "a", "]">> }

RECURSIVE PiecesJoined(_)
PiecesJoined(k) ==
    IF k = 0 THEN {<<>>}
    ELSE PiecesJoined(k - 1)
         \cup {p \o q : p \in PiecesJoined(k - 1), q \in Pieces}

Patterns == PiecesJoined(MaxPieces)

\* True or False
BoolOut(b) == [kind |-> "bool", val |-> <<b>>, vals |-> <<>>, why |-> ""]

\* the parts of the regular expression fnmatch.translate builds
STAR == [t |-> "star", cs |-> <<>>]
AnyChar == [t |-> "any", cs |-> <<>>]
Never == [t |-> "never", cs |-> <<>>]
Lit(c) == [t |-> "lit", cs |-> <<c>>]
CharSet(stuff) == [t |-> "set", cs |-> stuff]
NegSet(stuff) == [t |-> "nset", cs |-> stuff]

\* the while loop that looks for the closing "]" from index j on
RECURSIVE find_close(_, _)
find_close(pat, j) ==
    IF j <= Len(pat) /\ pat[j] # "]" THEN find_close(pat, j + 1) ELSE j

\* fnmatch.translate, its first loop: i is the index of the next character,
\* res the parts so far; a run of "*" gives one STAR
RECURSIVE translate_loop(_, _, _)
translate_loop(pat, i, res) ==
    IF i > Len(pat) THEN res
    ELSE LET c == pat[i]
             n == Len(pat)
             j0 == i + 1
             j1 == IF j0 <= n /\ pat[j0] = "!" THEN j0 + 1 ELSE j0
             j2 == IF j1 <= n /\ pat[j1] = "]" THEN j1 + 1 ELSE j1
             j == find_close(pat, j2)
             stuff == SubSeq(pat, j0, j - 1)
         IN IF c = "*"
            THEN translate_loop(pat, i + 1,
                    IF res = <<>> \/ res[Len(res)] # STAR
                    THEN Append(res, STAR) ELSE res)
            ELSE IF c = "?" THEN translate_loop(pat, i + 1, Append(res, AnyChar))
            ELSE IF c = "["
            THEN IF j > n THEN translate_loop(pat, i + 1, Append(res, Lit("[")))
                 ELSE translate_loop(pat, j + 1,
                        Append(res,
                          IF stuff = <<>> THEN Never
                          ELSE IF stuff = <<"!">> THEN AnyChar
                          ELSE IF stuff[1] = "!" THEN NegSet(Tail(stuff))
                          ELSE CharSet(stuff)))
            ELSE translate_loop(pat, i + 1, Append(res, Lit(c)))

\* fnmatch.translate
translate(pat) == translate_loop(pat, 1, <<>>)

\* whether one character is matched by a part that is not STAR
matches_char(part, c) ==
    CASE part.t = "any" -> TRUE
      [] part.t = "never" -> FALSE
      [] part.t = "lit" -> c = part.cs[1]
      [] part.t = "set" -> \E k \in 1..Len(part.cs) : part.cs[k] = c
      [] part.t = "nset" -> ~\E k \in 1..Len(part.cs) : part.cs[k] = c
      [] OTHER -> FALSE

\* re.match of the translated pattern, which ends in \Z: the parts take up
\* the whole of the text, a STAR any stretch of it
RECURSIVE re_match(_, _)
re_match(parts, text) ==
    IF parts = <<>> THEN text = <<>>
    ELSE IF Head(parts) = STAR
    THEN \E k \in 0..Len(text) :
            re_match(Tail(parts), SubSeq(text, k + 1, Len(text)))
    ELSE /\ text # <<>>
         /\ matches_char(Head(parts), Head(text))
         /\ re_match(Tail(parts), Tail(text))

\* fnmatch.fnmatchcase
fnmatchcase(nm, pat) == re_match(translate(pat), nm)

\* str.lower()
lower(s) == [i \in 1..Len(s) |-> IF s[i] = "A" THEN "a" ELSE s[i]]

\* FlexPath.match that folds the case of both sides
matchFolded(s, pattern) == fnmatchcase(lower(as_posix(s)), lower(pattern))

\* FlexPath.match
match(s, pattern) == fnmatchcase(as_posix(s), pattern)

\* the caller holds any FlexPath it can have constructed from such a text
InitMatch ==
    /\ cur \in {FlexPathNew(s) : s \in MatchStrs(MaxText)}
    /\ cwd = <<"/">>
    /\ pc = "ready"
    /\ op = "none"
    /\ args = <<>>
    /\ out = NoOut
    /\ loop_p = <<>>
    /\ loop_res = <<>>
    /\ loop_par = <<>>
    /\ fd = <<>>
    /\ before = <<>>
    /\ files = <<>>

Match == \E pattern \in Patterns : Call("match", <<pattern>>, BoolOut(match(cur, pattern)))

NextMatch ==
    \/ Match
    \/ Return

SpecMatch == InitMatch /\ [][NextMatch]_vars

\* ------------------------------------------------------------------------
\* FlexPath.mkdir, and the filesystem calls it makes

\* deepest path the filesystem holds
MaxDepth == 3

\* the path /top/a/.../a with k components
RECURSIVE Chain(_, _)
Chain(top, k) ==
    IF k = 1 THEN <<sep, top>> ELSE Chain(top, k - 1) \o <<sep, "a">>

\* the paths below the root that the filesystem knows of
FsPaths == {Chain(top, k) : top \in {"a", "b"}, k \in 1..MaxDepth}

\* what a path names: "dir", "file" (an entry that is no directory) or
\* "absent"; the root is a directory
kind_of(f, p) ==
    IF p = <<sep>> THEN "dir"
    ELSE IF p \in DOMAIN f THEN f[p]
    ELSE "absent"

\* the filesystems there can be: an entry has a directory as its parent
Filesystems ==
    {f \in [FsPaths -> {"absent", "file", "dir"}] :
        \A p \in FsPaths : f[p] # "absent" => kind_of(f, dirname(p)) = "dir"}

\* the tail of os.path.split: what follows the last "/"
basename(p) == SubSeq(p, rfind(p, sep) + 2, Len(p))

\* the error of walking down to p as a directory, "none" if there is none:
\* ENOENT at a missing component, ENOTDIR at one that is no directory
RECURSIVE lookup(_, _)
lookup(f, p) ==
    IF p = <<sep>> THEN "none"
    ELSE LET e == lookup(f, dirname(p))
         IN IF e # "none" THEN e
            ELSE IF kind_of(f, p) = "dir" THEN "none"
            ELSE IF kind_of(f, p) = "file" THEN "NotADirectoryError"
            ELSE "FileNotFoundError"

\* os.path.exists
exists(f, p) == p = <<sep>> \/ (lookup(f, dirname(p)) = "none" /\ kind_of(f, p) # "absent")

\* os.path.isdir
isdir(f, p) == lookup(f, p) = "none"

\* what a filesystem call gives: its error ("none" if it returns) and the
\* filesystem after it
Outcome(e, f) == [err |-> e, files |-> f]

\* os.mkdir
os_mkdir(f, p) ==
    IF p = <<sep>> THEN Outcome("FileExistsError", f)
    ELSE IF lookup(f, dirname(p)) # "none" THEN Outcome(lookup(f, dirname(p)), f)
    ELSE IF kind_of(f, p) # "absent" THEN Outcome("FileExistsError", f)
    ELSE Outcome("none", [f EXCEPT ![p] = "dir"])

\* os.makedirs
RECURSIVE os_makedirs(_, _, _)
os_makedirs(f, nm, exist_ok) ==
    LET head == dirname(nm)
        tail == basename(nm)
        above == head # <<>> /\ tail # <<>> /\ ~exists(f, head)
        made == IF above THEN os_makedirs(f, head, exist_ok) ELSE Outcome("none", f)
        f1 == made.files
        m == os_mkdir(f1, nm)
    IN IF made.err \notin {"none", "FileExistsError"} THEN made
       ELSE IF above /\ tail = dot THEN Outcome("none", f1)
       ELSE IF m.err = "none" THEN m
       ELSE IF ~exist_ok \/ ~isdir(f1, nm) THEN m
       ELSE Outcome("none", f1)

\* FlexPath.mkdir (with_parents is its argument parents)
mkdir(f, s, with_parents, exist_ok) ==
    IF with_parents THEN os_makedirs(f, s, exist_ok)
    ELSE LET m == os_mkdir(f, s)
         IN IF m.err = "FileExistsError" /\ exist_ok THEN Outcome("none", f) ELSE m

\* a call that returns None
NoneOut == [kind |-> "None", val |-> <<>>, vals |-> <<>>, why |-> ""]

\* a call that raises an OSError of kind e
OSError(e) == [kind |-> e, val |-> <<>>, vals |-> <<>>, why |-> ""]

\* any filesystem, and a caller that holds no path yet
InitFs ==
    /\ files \in Filesystems
    /\ cur = <<>>
    /\ cwd = <<"/">>
    /\ pc = "ready"
    /\ op = "none"
    /\ args = <<>>
    /\ out = NoOut
    /\ loop_p = <<>>
    /\ loop_res = <<>>
    /\ loop_par = <<>>
    /\ fd = <<>>
    /\ before = <<>>

\* FlexPath(p).mkdir(parents=parents, exist_ok=exist_ok)
Mkdir ==
    /\ pc = "ready"
    /\ \E p \in FsPaths \cup {<<sep>>}, with_parents \in BOOLEAN, exist_ok \in BOOLEAN :
          LET r == mkdir(files, p, with_parents, exist_ok)
          IN /\ cur' = p
             /\ args' = <<with_parents, exist_ok>>
             /\ files' = r.files
             /\ out' = IF r.err = "none" THEN NoneOut ELSE OSError(r.err)
    /\ op' = "mkdir"
    /\ pc' = "returned"
    /\ UNCHANGED <<cwd, loopvars, dictvars>>

NextFs ==
    \/ Mkdir
    \/ Return

SpecFs == InitFs /\ [][NextFs]_vars

\* ---------------------------------------------------------------------------
\* FlexDict (src/flexlib/flexdict.py)
\* ---------------------------------------------------------------------------

\* the largest number of keys, counted over all nesting depths, of a FlexDict
MaxItems == 2

\* a value: an int, a plain dict or a FlexDict; a dict holds its items in
\* insertion order, each a key (a text) and a value
IntOf(n) == [type |-> "int", num |-> n, items |-> <<>>]
Dict(its) == [type |-> "dict", num |-> 0, items |-> its]
FlexDictOf(its) == [type |-> "FlexDict", num |-> 0, items |-> its]
NoValue == [type |-> "absent", num |-> 0, items |-> <<>>]
Item(k, v) == [key |-> k, value |-> v]

\* isinstance(value, dict) and isinstance(value, FlexDict)
isinstance_dict(value) == value.type \in {"dict", "FlexDict"}
isinstance_FlexDict(value) == value.type = "FlexDict"

\* attribute names the caller uses
NameA == <<"a">>
NamePrivate == <<"_", "p">>
NameKeys == <<"k", "e", "y", "s">>
NameToDict == <<"t", "o", "_", "d", "i", "c", "t">>
NameLen == <<"_", "_", "l", "e", "n", "_", "_">>
Names == {NameA, NamePrivate, NameKeys, NameToDict, NameLen}

\* hasattr(dict, name), for the names at hand
hasattr_dict(nm) == nm \in {NameKeys, NameLen}

\* hasattr(FlexDict, name): what dict has and what the class body defines
hasattr_FlexDict(nm) == hasattr_dict(nm) \/ nm = NameToDict

\* key in d, d[key], dict.__setitem__(d, key, value), del d[key]
contains(d, key) == \E i \in 1..Len(d.items) : d.items[i].key = key
getitem(d, key) ==
    d.items[CHOOSE i \in 1..Len(d.items) : d.items[i].key = key].value
dict_setitem(d, key, value) ==
    IF contains(d, key)
    THEN [d EXCEPT !.items = [i \in 1..Len(d.items) |->
              IF d.items[i].key = key THEN Item(key, value) ELSE d.items[i]]]
    ELSE [d EXCEPT !.items = Append(d.items, Item(key, value))]
dict_delitem(d, key) ==
    [d EXCEPT !.items = SelectSeq(d.items, LAMBDA e : e.key # key)]

\* dict(d, **kwargs): the items of d, then those of kwargs
RECURSIVE dict_update(_, _, _)
dict_update(d, other, i) ==
    IF i > Len(other.items) THEN d
    ELSE dict_update(dict_setitem(d, other.items[i].key, other.items[i].value),
                     other, i + 1)

RECURSIVE __init__(_, _)
RECURSIVE __setitem__(_, _, _)
RECURSIVE init_loop(_, _, _)

\* self[key] = value with the value kept as it is
__setitem__Plain(self, key, value) == dict_setitem(self, key, value)

\* self[key] = value
__setitem__(self, key, value) ==
    dict_setitem(self, key,
                 IF isinstance_dict(value) /\ ~isinstance_FlexDict(value)
                 THEN __init__(value, Dict(<<>>))
                 ELSE value)

\* the loop of __init__ over self.items(), from the i-th item on
init_loop(self, its, i) ==
    IF i > Len(its) THEN self
    ELSE LET key == its[i].key
             value == its[i].value
         IN init_loop(IF isinstance_dict(value) /\ ~isinstance_FlexDict(value)
                      THEN __setitem__(self, key, __init__(value, Dict(<<>>)))
                      ELSE self,
                      its, i + 1)

\* FlexDict(d, **kwargs)
__init__(d, kwargs) ==
    LET self == dict_update(FlexDictOf(d.items), kwargs, 1)
    IN init_loop(self, self.items, 1)

\* what a call gives: its outcome and the FlexDict after it
Gives(o, self) == [out |-> o, self |-> self]
ValueOut(v) == [kind |-> "value", val |-> <<v>>, vals |-> <<>>, why |-> ""]
MethodOut(nm) == [kind |-> "method", val |-> nm, vals |-> <<>>, why |-> ""]
AttributeError == [kind |-> "AttributeError", val |-> <<>>, vals |-> <<>>, why |-> ""]
KeyError == [kind |-> "KeyError", val |-> <<>>, vals |-> <<>>, why |-> ""]

\* __getattr__ that hands out a new FlexDict for a missing key and keeps
\* none
__getattr__NoStore(self, nm) ==
    IF startswith(nm, <<"_">>) THEN Gives(AttributeError, self)
    ELSE IF hasattr_dict(nm) THEN Gives(MethodOut(nm), self)
    ELSE IF contains(self, nm) THEN Gives(ValueOut(getitem(self, nm)), self)
    ELSE Gives(ValueOut(FlexDictOf(<<>>)), self)

\* FlexDict.__getattr__(self, name)
__getattr__(self, nm) ==
    IF startswith(nm, <<"_">>) THEN Gives(AttributeError, self)
    ELSE IF hasattr_dict(nm) THEN Gives(MethodOut(nm), self)
    ELSE IF contains(self, nm) THEN Gives(ValueOut(getitem(self, nm)), self)
    ELSE LET created == __setitem__(self, nm, FlexDictOf(<<>>))
         IN Gives(ValueOut(getitem(created, nm)), created)

\* self.name: an attribute of the class is found first, __getattr__ is
\* called for the names that are none
getattribute(self, nm) ==
    IF hasattr_FlexDict(nm) THEN Gives(MethodOut(nm), self)
    ELSE __getattr__(self, nm)

\* the name test without the dict attribute names
read_onlyPrivate(nm) == startswith(nm, <<"_">>)

\* the name test of __setattr__ and __delattr__
read_only(nm) == startswith(nm, <<"_">>) \/ hasattr_dict(nm)

\* self.name = value
__setattr__(self, nm, value) ==
    IF read_only(nm) THEN Gives(AttributeError, self)
    ELSE Gives(NoneOut,
               __setitem__(self, nm,
                           IF isinstance_dict(value) /\ ~isinstance_FlexDict(value)
                           THEN __init__(value, Dict(<<>>))
                           ELSE value))

\* del self.name
__delattr__(self, nm) ==
    IF read_only(nm) THEN Gives(AttributeError, self)
    ELSE IF contains(self, nm) THEN Gives(NoneOut, dict_delitem(self, nm))
    ELSE Gives(AttributeError, self)

\* self[key]
__getitem__(self, key) ==
    IF contains(self, key) THEN Gives(ValueOut(getitem(self, key)), self)
    ELSE Gives(KeyError, self)

\* the loops of update over other.items() and kwargs.items()
RECURSIVE update_loop(_, _, _)
update_loop(self, its, i) ==
    IF i > Len(its) THEN self
    ELSE update_loop(__setitem__(self, its[i].key, its[i].value), its, i + 1)

\* self.update(other, **kwargs)
update(self, other, kwargs) ==
    Gives(NoneOut,
          update_loop(update_loop(self, other.items, 1), kwargs.items, 1))

\* the number of keys of a value from its i-th item on, those of its
\* nested dicts included
RECURSIVE size_from(_, _)
size_from(v, i) ==
    IF i > Len(v.items) THEN 0
    ELSE 1 + size_from(v.items[i].value, 1) + size_from(v, i + 1)

\* the FlexDict reached from v through the keys of path, and v with that
\* FlexDict changed to new
RECURSIVE at(_, _)
at(v, path) ==
    IF path = <<>> THEN v ELSE at(getitem(v, Head(path)), Tail(path))
RECURSIVE replace(_, _, _)
replace(v, path, new) ==
    IF path = <<>> THEN new
    ELSE dict_setitem(v, Head(path),
                      replace(getitem(v, Head(path)), Tail(path), new))

\* the paths of keys that lead from v to a FlexDict
RECURSIVE Paths(_)
Paths(v) ==
    {<<>>} \cup
    UNION {{<<v.items[i].key>> \o p : p \in Paths(v.items[i].value)} :
              i \in {j \in 1..Len(v.items) : isinstance_FlexDict(v.items[j].value)}}

\* the plain dicts of at most k keys a caller passes
RECURSIVE PlainDicts(_)
PlainDicts(k) ==
    IF k = 0 THEN {Dict(<<>>)}
    ELSE PlainDicts(k - 1) \cup
         {Dict(<<Item(NameA, v)>>) : v \in {IntOf(1)} \cup PlainDicts(k - 1)}

\* the values a caller passes: ints, plain dicts, FlexDicts made of them
Values ==
    {IntOf(1), IntOf(2)} \cup PlainDicts(MaxItems - 1)
        \cup {__init__(d, Dict(<<>>)) : d \in PlainDicts(MaxItems - 1)}

\* the keyword arguments a caller passes
Kwargs == {Dict(<<>>), Dict(<<Item(NameA, Dict(<<>>))>>)}

InitDict ==
    /\ fd = FlexDictOf(<<>>)
    /\ before = FlexDictOf(<<>>)
    /\ cur = <<>>
    /\ cwd = <<"/">>
    /\ pc = "ready"
    /\ op = "none"
    /\ args = <<>>
    /\ out = NoOut
    /\ loop_p = <<>>
    /\ loop_res = <<>>
    /\ loop_par = <<>>
    /\ files = <<>>

\* a call on the FlexDict at path that gives r
DictCall(o, path, nm, value, kwargs, r) ==
    /\ pc = "ready"
    /\ size_from(replace(fd, path, r.self), 1) <= MaxItems
    /\ before' = fd
    /\ fd' = replace(fd, path, r.self)
    /\ op' = o
    /\ args' = <<path, nm, value, kwargs>>
    /\ out' = r.out
    /\ pc' = "returned"
    /\ UNCHANGED <<cur, cwd, loopvars, files>>

\* fd = FlexDict(d, **kwargs)
NewFlexDict ==
    \E d \in PlainDicts(MaxItems - 1), kwargs \in Kwargs :
        /\ pc = "ready"
        /\ size_from(__init__(d, kwargs), 1) <= MaxItems
        /\ before' = fd
        /\ fd' = __init__(d, kwargs)
        /\ op' = "FlexDict"
        /\ args' = <<(<<>>), <<>>, d, kwargs>>
        /\ out' = NoneOut
        /\ pc' = "returned"
        /\ UNCHANGED <<cur, cwd, loopvars, files>>

\* x.name
GetAttr ==
    \E path \in Paths(fd), nm \in Names :
        DictCall("getattr", path, nm, NoValue, NoValue,
                 getattribute(at(fd, path), nm))

\* x.name = value
SetAttr ==
    \E path \in Paths(fd), nm \in Names, value \in Values :
        DictCall("setattr", path, nm, value, NoValue,
                 __setattr__(at(fd, path), nm, value))

\* del x.name
DelAttr ==
    \E path \in Paths(fd), nm \in Names :
        DictCall("delattr", path, nm, NoValue, NoValue,
                 __delattr__(at(fd, path), nm))

\* x[key]
GetItem ==
    \E path \in Paths(fd), key \in Names :
        DictCall("getitem", path, key, NoValue, NoValue,
                 __getitem__(at(fd, path), key))

\* x[key] = value
SetItem ==
    \E path \in Paths(fd), key \in Names, value \in Values :
        DictCall("setitem", path, key, value, NoValue,
                 Gives(NoneOut, __setitem__(at(fd, path), key, value)))

\* x.update(other, **kwargs)
Update ==
    \E path \in Paths(fd), other \in PlainDicts(MaxItems - 1), kwargs \in Kwargs :
        DictCall("update", path, <<>>, other, kwargs,
                 update(at(fd, path), other, kwargs))

NextDict ==
    \/ NewFlexDict
    \/ GetAttr
    \/ SetAttr
    \/ DelAttr
    \/ GetItem
    \/ SetItem
    \/ Update
    \/ Return

SpecDict == InitDict /\ [][NextDict]_vars

\* ------------------------------------------------------------------------
\* Properties

\* the call that has just returned
Did(o) == pc = "returned" /\ op = o

\* the text a *others call passes on: os.path.join(*others), "" for none
BaseText == IF args = <<>> THEN <<>> ELSE join(args[1], Tail(args))

IsPrefix(a, b) == Len(a) <= Len(b) /\ SubSeq(b, 1, Len(a)) = a

\* the segments normalization retains, as section 4.1 words it: s is the
\* list of segments still to read, kept the segments retained so far
RECURSIVE Retained(_, _, _)
Retained(s, absolute, kept) ==
    IF s = <<>> THEN kept
    ELSE IF s[1] = <<>> \/ s[1] = dot THEN Retained(Tail(s), absolute, kept)
    ELSE IF s[1] # dotdot THEN Retained(Tail(s), absolute, Append(kept, s[1]))
    ELSE IF kept # <<>> /\ kept[Len(kept)] # dotdot
         THEN Retained(Tail(s), absolute, SubSeq(kept, 1, Len(kept) - 1))
    ELSE IF absolute THEN Retained(Tail(s), absolute, kept)
    ELSE Retained(Tail(s), absolute, Append(kept, s[1]))

\* normalization as section 4.1 words it: one "/" in front of an absolute
\* text, single separators, and the relative marker when nothing is left
Normalization(s) ==
    LET kept == Retained(split(s), s # <<>> /\ s[1] = sep, <<>>)
        text == (IF s # <<>> /\ s[1] = sep THEN <<sep>> ELSE <<>>) \o sepjoin(kept)
    IN IF s = <<>> THEN <<>> ELSE IF text = <<>> THEN dot ELSE text

\* C1: constructing a FlexPath from s yields "" for "" and otherwise the
\* normalization of s: empty and "." segments dropped, ".." resolved against
\* the retained segment before it, single separators, exactly one leading
\* "/" for an absolute s.
C1_ConstructionNormalizes == Did("construct") => out.val = Normalization(args[1])

\* the segments of a text between its separators
Segments(t) == SelectSeq(split(t), LAMBDA c : c # <<>>)

\* a text is normalized: no "//", no "." component unless the text is ".",
\* no ".." component after a component that is not ".."
NormalizedText(t) ==
    /\ ~\E i \in 1..(Len(t) - 1) : t[i] = sep /\ t[i + 1] = sep
    /\ t # dot => \A i \in 1..Len(Segments(t)) : Segments(t)[i] # dot
    /\ \A i \in 2..Len(Segments(t)) :
          Segments(t)[i] = dotdot => Segments(t)[i - 1] = dotdot
    /\ (isabs(t) /\ Segments(t) # <<>>) => Segments(t)[1] # dotdot

\* C2: every FlexPath value obtained from the pure operations has normalized
\* text.
C2_ValuesNormalized ==
    NormalizedText(cur) /\ \A t \in Returned(out) : NormalizedText(t)

\* C3: normalization is idempotent: FlexPath(FlexPath(x)) equals FlexPath(x).
C3_Idempotent == Did("construct") => FlexPathNew(out.val) = out.val

\* construction changed the text it was given
C3_Witness == Did("construct") /\ out.val # args[1] /\ FlexPathNew(out.val) = out.val

\* the component sequence of a text once normalized: the root marker of an
\* absolute text, then its segments
Components(t) ==
    (IF isabs(t) THEN <<(<<sep>>)>> ELSE <<>>)
    \o SelectSeq(Segments(FlexPathNew(t)), LAMBDA c : c # dot)

\* C4: relative_to fails with ValueError (not a subpath, when the anchors
\* agree) whenever the components of the base are not a complete prefix of
\* the receiver's; it never answers with a path then.
C4_NotPrefixFails ==
    (Did("relative_to") /\ ~IsPrefix(Components(BaseText), Components(cur)))
        => /\ out.kind = "ValueError"
           /\ isabs(cur) = isabs(BaseText) => out.why = "subpath"

\* the base is a leading part of the receiver's last name only
C4_Witness ==
    /\ Did("relative_to")
    /\ cur = <<"/", "a", "a">>
    /\ args = <<(<<"/", "a">>)>>
    /\ out = ValueError("subpath")

\* C5: with the same anchor and the base's components a prefix of the
\* receiver's, relative_to returns the remaining components joined with "/",
\* and "." when nothing remains.
C5_PrefixSucceeds ==
    (/\ Did("relative_to")
     /\ isabs(cur) = isabs(BaseText)
     /\ IsPrefix(Components(BaseText), Components(cur)))
        => LET rest == SubSeq(Components(cur), Len(Components(BaseText)) + 1,
                              Len(Components(cur)))
           IN out = PathOut(IF rest = <<>> THEN dot ELSE sepjoin(rest))

\* C6: relative_to fails on incompatible anchors whenever exactly one of the
\* receiver and the base is absolute, an omitted or empty base included.
C6_AnchorsFail ==
    (Did("relative_to") /\ _is_abs(cur) # _is_abs(FlexPathNew(BaseText)))
        => out = ValueError("anchors")

\* an absolute receiver and no base at all
C6_Witness ==
    /\ Did("relative_to")
    /\ _is_abs(cur)
    /\ args = <<>>
    /\ out = ValueError("anchors")

\* C7: for an absolute base b and an absolute p with p.relative_to(b)
\* succeeding, b.joinpath(p.relative_to(b)) equals p.
C7_RelativeInverse ==
    (/\ Did("relative_to")
     /\ _is_abs(cur)
     /\ _is_abs(BaseText)
     /\ out.kind = "path")
        => joinpath(FlexPathNew(BaseText), <<out.val>>) = cur

\* C8: the outcome of relative_to depends on the receiver and the base only:
\* the same call gives the same outcome in every working directory.
C8_OutcomeOfOperandsOnly ==
    Did("relative_to") => \A d \in Dirs : relative_to(cur, args, d) = out

\* the POSIX join the claim words: everything before the last absolute
\* fragment is discarded, the rest is concatenated with "/" where the text
\* so far does not already end with one
LastAbsolute(fs) ==
    IF \E i \in 1..Len(fs) : isabs(fs[i])
    THEN CHOOSE i \in 1..Len(fs) :
             isabs(fs[i]) /\ \A j \in (i + 1)..Len(fs) : ~isabs(fs[j])
    ELSE 1

RECURSIVE Concatenated(_)
Concatenated(fs) ==
    IF fs = <<>> THEN <<>>
    ELSE LET front == Concatenated(SubSeq(fs, 1, Len(fs) - 1))
             last == fs[Len(fs)]
         IN IF front = <<>> \/ front[Len(front)] = sep THEN front \o last
            ELSE front \o <<sep>> \o last

PosixJoin(fs) == Concatenated(SubSeq(fs, LastAbsolute(fs), Len(fs)))

\* C9: joinpath, p / f and f / p return the normalization of the POSIX join
\* of their operands in order; for an absolute fragment f, p.joinpath(f)
\* equals FlexPath(f).
C9_JoinIsPosixJoin ==
    /\ Did("joinpath") => out.val = FlexPathNew(PosixJoin(<<cur>> \o args))
    /\ Did("truediv") => out.val = FlexPathNew(PosixJoin(<<cur>> \o args))
    /\ Did("rtruediv") => out.val = FlexPathNew(PosixJoin(args \o <<cur>>))
    /\ (Did("joinpath") /\ Len(args) = 1 /\ isabs(args[1]))
           => out.val = FlexPathNew(args[1])

\* a later absolute fragment discards a receiver and a fragment before it
C9_Witness ==
    /\ Did("joinpath")
    /\ cur # <<>>
    /\ Len(args) = 2
    /\ args[1] # <<>>
    /\ isabs(args[2])
    /\ out.val = FlexPathNew(args[2])

\* C10: for fragments b and c that are not absolute,
\* a.joinpath(b).joinpath(c) equals a.joinpath(b, c).
C10_JoinAssociative ==
    (Did("joinpath") /\ Len(args) = 2 /\ ~isabs(args[1]) /\ ~isabs(args[2]))
        => out.val = joinpath(joinpath(cur, <<args[1]>>), <<args[2]>>)

\* the intermediate result was changed by normalization before c was joined
C10_Witness ==
    /\ Did("joinpath")
    /\ Len(args) = 2
    /\ ~isabs(args[1])
    /\ ~isabs(args[2])
    /\ args[2] # <<>>
    /\ joinpath(cur, <<args[1]>>) # join(cur, <<args[1]>>)
    /\ out.val = joinpath(joinpath(cur, <<args[1]>>), <<args[2]>>)

\* C11: parts is the empty tuple for "", ("/",) for "/", the root marker
\* followed by the non-empty segments for any other absolute path, and just
\* those segments for a relative path.
C11_Parts ==
    Did("parts") =>
        out.vals = IF cur = <<>> THEN <<>>
                   ELSE IF cur = <<sep>> THEN <<(<<sep>>)>>
                   ELSE (IF cur[1] = sep THEN <<(<<sep>>)>> ELSE <<>>)
                        \o Segments(cur)

\* parts of an absolute path of two segments
C11_Witness ==
    /\ Did("parts")
    /\ isabs(cur)
    /\ Len(Segments(cur)) = 2
    /\ out.vals = <<(<<sep>>)>> \o Segments(cur)

\* C12: name of "/" is "/", name of "" is "", and for every other path name
\* is the last element of parts.
C12_NameIsLastPart ==
    Did("name") =>
        out.val = IF cur = <<sep>> THEN <<sep>>
                  ELSE IF cur = <<>> THEN <<>>
                  ELSE _split_parts(cur)[Len(_split_parts(cur))]

\* C13: stem followed by suffix is name, and suffix is empty or starts with
\* ".".
C13_StemSuffixName ==
    /\ Did("suffix") =>
          /\ stem(cur) \o out.val = name(cur)
          /\ out.val = <<>> \/ out.val[1] = "."
    /\ Did("stem") => out.val \o suffix(cur) = name(cur)

\* a suffix taken from a name with two dots
C13_Witness ==
    /\ Did("suffix")
    /\ count_dot(name(cur)) = 2
    /\ out.val # <<>>
    /\ out.val # name(cur)
    /\ stem(cur) \o out.val = name(cur)

\* the elements of a list of str, one after the other
RECURSIVE Flat(_)
Flat(ts) == IF ts = <<>> THEN <<>> ELSE ts[1] \o Flat(Tail(ts))

\* C14: suffixes is empty exactly when suffix is; otherwise its last element
\* is suffix and its elements together end name; a name that is one leading
\* dot and no other dot has suffix "" and suffixes [].
C14_SuffixesAgree ==
    Did("suffixes") =>
        /\ out.vals = <<>> <=> suffix(cur) = <<>>
        /\ out.vals # <<>> =>
              /\ out.vals[Len(out.vals)] = suffix(cur)
              /\ endswith(name(cur), Flat(out.vals))
        /\ (name(cur) # <<>> /\ name(cur)[1] = "." /\ count_dot(name(cur)) = 1)
              => out.vals = <<>> /\ suffix(cur) = <<>>

\* a name of the shape archive.tar.gz: two suffixes, the last one is suffix
C14_Witness ==
    /\ Did("suffixes")
    /\ name(cur) = <<"a", ".", "a", ".", "a">>
    /\ out.vals = <<(<<".", "a">>), (<<".", "a">>)>>
    /\ stem(cur) = <<"a", ".", "a">>

\* C15: parent of "/" is "/"; parent of a text without "/" is "."; otherwise
\* parent is the text without its final component and the separator before
\* it, or "/" when nothing else remains.
C15_Parent ==
    Did("parent") =>
        out.val = IF cur = <<sep>> THEN <<sep>>
                  ELSE IF rfind(cur, sep) = -1 THEN dot
                  ELSE IF rfind(cur, sep) = 0 THEN <<sep>>
                  ELSE SubSeq(cur, 1, rfind(cur, sep))

\* C16: parents lists the ancestors nearest first: its first element is
\* p.parent and each later one is the parent of the one before; for an
\* absolute p other than "/" the last element is "/"; for a relative p the
\* list never contains ".".
C16_Parents ==
    Did("parents") =>
        /\ out.vals # <<>> => out.vals[1] = parent(cur)
        /\ \A i \in 2..Len(out.vals) : out.vals[i] = parent(out.vals[i - 1])
        /\ (cur # <<>> /\ cur[1] = sep /\ cur # <<sep>>)
              => out.vals # <<>> /\ out.vals[Len(out.vals)] = <<sep>>
        /\ ~(cur # <<>> /\ cur[1] = sep)
              => \A i \in 1..Len(out.vals) : out.vals[i] # dot

HasSep(x) == \E i \in 1..Len(x) : x[i] = sep

\* C17: with_name(x) and with_stem(x) raise ValueError when x is empty or
\* contains "/", with_suffix(x) when x is non-empty and does not start with
\* "."; all three raise it for any argument when the receiver is "/" or "".
C17_RewritingRejects ==
    /\ (Did("with_name") /\ (args[1] = <<>> \/ HasSep(args[1]) \/ cur \in {<<>>, <<sep>>}))
          => out.kind = "ValueError"
    /\ (Did("with_stem") /\ (args[1] = <<>> \/ HasSep(args[1]) \/ cur \in {<<>>, <<sep>>}))
          => out.kind = "ValueError"
    /\ (Did("with_suffix")
        /\ ((args[1] # <<>> /\ args[1][1] # ".") \/ cur \in {<<>>, <<sep>>}))
          => out.kind = "ValueError"

\* a good name given to the empty path
C17_Witness ==
    /\ Did("with_name")
    /\ cur = <<>>
    /\ args = <<(<<"a">>)>>
    /\ out.kind = "ValueError"

\* C18: for a receiver p other than "/" and "" and a non-empty n without
\* "/", p.with_name(n) has name n and the parent of p.
C18_WithName ==
    (/\ Did("with_name")
     /\ cur \notin {<<>>, <<sep>>}
     /\ args[1] # <<>>
     /\ ~HasSep(args[1]))
        => /\ out.kind = "path"
           /\ name(out.val) = args[1]
           /\ parent(out.val) = parent(cur)

\* C19: for a receiver p with a name and s empty or starting with ".",
\* p.with_suffix(s) has name p.stem followed by s and the parent of p.
C19_WithSuffix ==
    (/\ Did("with_suffix")
     /\ name(cur) \notin {<<>>, <<sep>>}
     /\ (args[1] = <<>> \/ args[1][1] = "."))
        => /\ out.kind = "path"
           /\ name(out.val) = stem(cur) \o args[1]
           /\ parent(out.val) = parent(cur)

\* C20: for every x that is neither "/" nor "", x.with_suffix(x.suffix)
\* succeeds and equals x.
C20_SuffixRoundTrip ==
    (/\ Did("with_suffix")
     /\ cur \notin {<<>>, <<sep>>}
     /\ args[1] = suffix(cur))
        => out = PathOut(cur)

\* C21: for a receiver p with a name and a non-empty s without "/",
\* p.with_stem(s) has the suffix of p, the stem s and the parent of p.
C21_WithStem ==
    (/\ Did("with_stem")
     /\ name(cur) \notin {<<>>, <<sep>>}
     /\ args[1] # <<>>
     /\ ~HasSep(args[1]))
        => /\ out.kind = "path"
           /\ suffix(out.val) = suffix(cur)
           /\ stem(out.val) = args[1]
           /\ parent(out.val) = parent(cur)

\* C30: for a path whose name starts with ".", the suffixes put together
\* are shorter than the name: no suffix begins at the name's first
\* character, and what is left of the name before them is not empty.
C30_LeadingDotNoSeparator ==
    (/\ Did("suffixes")
     /\ startswith(name(cur), dot))
        => /\ endswith(name(cur), Flat(out.vals))
           /\ Len(Flat(out.vals)) < Len(name(cur))

\* C29: the loop of parents always exits: once begun it comes to return,
\* and it does so at a path whose parent is the path itself or is ".".
C29_ParentsTerminates ==
    (pc = "loop")
        ~> (/\ Did("parents")
            /\ loop_par = parent(loop_p)
            /\ (loop_par = loop_p \/ loop_par = dot))

\* the loop has gone up two ancestors and stopped at the root
C29_Witness ==
    /\ Did("parents")
    /\ Len(out.vals) >= 2
    /\ loop_p = <<sep>>
    /\ parent(loop_p) = loop_p

\* the percent-encoding of the characters that are neither letters nor "."
PercentCode(c) ==
    CASE c = " " -> <<"%", "2", "0">>
      [] c = "\\" -> <<"%", "5", "C">>
      [] OTHER -> <<c>>

\* a text with "/" and ":" kept and the other such characters encoded
RECURSIVE Encoded(_)
Encoded(t) ==
    IF t = <<>> THEN <<>>
    ELSE (IF Head(t) \in {"/", ":"} THEN <<Head(t)>> ELSE PercentCode(Head(t)))
         \o Encoded(Tail(t))

\* C22: as_uri raises ValueError exactly when the text does not start with
\* "/"; otherwise it returns "file://" and then the path text with "/" and
\* ":" kept and every other character that is no letter or "." encoded
\* (a space as %20).
C22_AsUri ==
    Did("as_uri") =>
        /\ out.kind = "ValueError" <=> ~startswith(cur, <<sep>>)
        /\ startswith(cur, <<sep>>)
              => out = StrOut(<<"f", "i", "l", "e", ":", "/", "/">> \o Encoded(cur))

\* a pattern without "*", "?" and "[": every character stands for itself
Literal(pat) == \A i \in 1..Len(pat) : pat[i] \notin {"*", "?", "["}

\* two texts that are alike but for the case of their letters
SameButCase(p, q) ==
    /\ Len(p) = Len(q)
    /\ \A i \in 1..Len(p) : p[i] = q[i] \/ {p[i], q[i]} = {"a", "A"}

\* the forward-slash form of a text: "/" for every backslash
ForwardSlash(t) == [i \in 1..Len(t) |-> IF t[i] = "\\" THEN "/" ELSE t[i]]

\* C23 as stated: match is a case-sensitive match against the whole path
\* text: a pattern of plain characters matches exactly the text equal to it,
\* "*" and plain characters exactly the texts ending in them (the "*"
\* spanning "/"), and a pattern that differs only in letter case from one
\* that matches does not match.
C23_Match ==
    Did("match") =>
        LET pat == args[1]
            m == out.val[1]
        IN /\ Literal(pat) => (m <=> pat = cur)
           /\ (pat # <<>> /\ pat[1] = "*" /\ Literal(Tail(pat)))
                 => (m <=> endswith(cur, Tail(pat)))
           /\ m => \A q \in Patterns :
                      (q # pat /\ SameButCase(q, pat)) => ~match(cur, q)

\* C23 amended: match is a case-sensitive match against the whole
\* forward-slash form of the path text: a pattern of plain characters
\* matches exactly when it equals that form, so not when it differs from it
\* in letter case; "*" and plain characters exactly when the form ends in
\* them; "?" and a set exactly when the form is one such character.
C23_MatchForwardSlash ==
    Did("match") =>
        LET pat == args[1]
            m == out.val[1]
            t == ForwardSlash(cur)
        IN /\ Literal(pat) => (m <=> pat = t)
           /\ (Literal(pat) /\ pat # t /\ SameButCase(pat, t)) => ~m
           /\ (pat # <<>> /\ pat[1] = "*" /\ Literal(Tail(pat)))
                 => (m <=> endswith(t, Tail(pat)))
           /\ pat = <<"?">> => (m <=> Len(t) = 1)
           /\ pat = <<"[", "a", "A", "]">> => (m <=> t \in {<<"a">>, <<"A">>})
           /\ pat = <<"[", "!", "a", "]">> => (m <=> Len(t) = 1 /\ t # <<"a">>)

\* "*a" matches "A/a": the "*" spans the "/", the case of the "a" counts
C23_Witness ==
    /\ Did("match")
    /\ cur = <<"A", "/", "a">>
    /\ args = <<(<<"*", "a">>)>>
    /\ out = BoolOut(TRUE)

\* the FlexDict a call was made on, when the call began and now
Target == at(fd, args[1])
TargetBefore == at(before, args[1])

\* v == w as Python compares them: ints by number, dicts (plain or FlexDict)
\* by their keys and the values under them
RECURSIVE PyEq(_, _)
PyEq(v, w) ==
    IF isinstance_dict(v) /\ isinstance_dict(w)
    THEN /\ \A i \in 1..Len(v.items) : contains(w, v.items[i].key)
         /\ \A i \in 1..Len(w.items) :
               /\ contains(v, w.items[i].key)
               /\ PyEq(getitem(v, w.items[i].key), w.items[i].value)
    ELSE v.type = w.type /\ v.num = w.num

\* the FlexDicts of fd, fd among them
FlexDicts == {at(fd, path) : path \in Paths(fd)}

\* C24: dot and bracket notation are interchangeable: once fd[k] = v or
\* fd.k = v has stored v under k without an error, fd[k] and fd.k both
\* return v, and they still do after later calls that do not touch k: a call
\* about another key leaves k and its value alone, and at any time the two
\* reads of a key that is present return the same value.
C24_Interchangeable ==
    /\ ((Did("setitem") \/ Did("setattr")) /\ out = NoneOut) =>
          /\ __getitem__(Target, args[2]).out.kind = "value"
          /\ PyEq(getitem(Target, args[2]), args[3])
          /\ getattribute(Target, args[2]).out = __getitem__(Target, args[2]).out
    /\ (\E o \in {"getattr", "setattr", "delattr", "getitem", "setitem"} : Did(o)) =>
          \A k \in Names \ {args[2]} :
              contains(TargetBefore, k) =>
                  /\ contains(Target, k)
                  /\ getitem(Target, k) = getitem(TargetBefore, k)
    /\ pc = "ready" =>
          \A x \in FlexDicts : \A i \in 1..Len(x.items) :
              getattribute(x, x.items[i].key).out = ValueOut(x.items[i].value)

\* every dict among the values of v, at every depth, is a FlexDict
RECURSIVE AllFlexDict(_)
AllFlexDict(v) ==
    \A i \in 1..Len(v.items) :
        isinstance_dict(v.items[i].value) =>
            /\ isinstance_FlexDict(v.items[i].value)
            /\ AllFlexDict(v.items[i].value)

\* C25: after any sequence of constructions, attribute and item
\* assignments, updates and attribute reads, every value that is a dict, at
\* every nesting depth, is a FlexDict: no plain dict is stored.
C25_NoPlainDict == isinstance_FlexDict(fd) /\ AllFlexDict(fd)

\* fd[k] = {"a": {}} has stored a FlexDict that holds a FlexDict
C25_Witness ==
    /\ Did("setitem")
    /\ args[1] = <<>>
    /\ args[3] = Dict(<<Item(NameA, Dict(<<>>))>>)
    /\ getitem(fd, args[2]) = FlexDictOf(<<Item(NameA, FlexDictOf(<<>>))>>)

\* C26 as stated: reading fd.k for an absent k that does not start with "_"
\* and is no dict attribute name returns an empty FlexDict and stores it
\* under k, so that later reads return it; reading a key that is present
\* returns its value and leaves the mapping unchanged.
C26_Read ==
    Did("getattr") =>
        /\ (/\ ~contains(TargetBefore, args[2])
            /\ ~startswith(args[2], <<"_">>)
            /\ ~hasattr_dict(args[2]))
              => /\ out = ValueOut(FlexDictOf(<<>>))
                 /\ contains(Target, args[2])
                 /\ getitem(Target, args[2]) = FlexDictOf(<<>>)
                 /\ getattribute(Target, args[2]) = Gives(out, Target)
        /\ contains(TargetBefore, args[2])
              => /\ out = ValueOut(getitem(TargetBefore, args[2]))
                 /\ fd = before

\* C26 amended: for a k that does not start with "_" and is no attribute of
\* the class (a dict attribute name or to_dict), reading fd.k when k is
\* absent returns an empty FlexDict and stores it under k, so that later
\* reads return it, and reading fd.k when k is present returns its value
\* and leaves the mapping unchanged; all other keys keep their values.
C26_ReadPlainName ==
    (/\ Did("getattr")
     /\ ~startswith(args[2], <<"_">>)
     /\ ~hasattr_FlexDict(args[2])) =>
        /\ ~contains(TargetBefore, args[2])
              => /\ out = ValueOut(FlexDictOf(<<>>))
                 /\ Target = dict_setitem(TargetBefore, args[2], FlexDictOf(<<>>))
                 /\ fd = replace(before, args[1], Target)
                 /\ getattribute(Target, args[2]) = Gives(out, Target)
        /\ contains(TargetBefore, args[2])
              => /\ out = ValueOut(getitem(TargetBefore, args[2]))
                 /\ fd = before

\* fd.a.a was read with fd.a present and empty: fd.a.a is now an empty
\* FlexDict
C26_Witness ==
    /\ Did("getattr")
    /\ args[1] = <<NameA>>
    /\ args[2] = NameA
    /\ ~contains(TargetBefore, NameA)
    /\ getitem(getitem(fd, NameA), NameA) = FlexDictOf(<<>>)

\* C27 as stated: assigning or deleting an attribute whose name starts with
\* "_" or is a dict attribute name, reading an attribute whose name starts
\* with "_", and deleting an attribute that is no key each raise
\* AttributeError and leave the mapping unchanged.
C27_AttributeError ==
    /\ ((Did("setattr") \/ Did("delattr"))
            /\ (startswith(args[2], <<"_">>) \/ hasattr_dict(args[2])))
          => (out = AttributeError /\ fd = before)
    /\ (Did("getattr") /\ startswith(args[2], <<"_">>))
          => (out = AttributeError /\ fd = before)
    /\ (Did("delattr") /\ ~contains(TargetBefore, args[2]))
          => (out = AttributeError /\ fd = before)

\* C27 amended: assigning or deleting an attribute whose name starts with
\* "_" or is a dict attribute name, reading an attribute whose name starts
\* with "_" and is no attribute of the class (such as "_p", unlike
\* "__len__"), and deleting an attribute that is no key each raise
\* AttributeError and leave the mapping unchanged.
C27_AttributeErrorNoClassName ==
    /\ ((Did("setattr") \/ Did("delattr"))
            /\ (startswith(args[2], <<"_">>) \/ hasattr_dict(args[2])))
          => (out = AttributeError /\ fd = before)
    /\ (Did("getattr") /\ startswith(args[2], <<"_">>)
            /\ ~hasattr_FlexDict(args[2]))
          => (out = AttributeError /\ fd = before)
    /\ (Did("delattr") /\ ~contains(TargetBefore, args[2]))
          => (out = AttributeError /\ fd = before)

\* del fd.keys raised AttributeError although "keys" is a key (stored by
\* fd["keys"] = 1), and it still is
C27_Witness ==
    /\ Did("delattr")
    /\ args[1] = <<>>
    /\ args[2] = NameKeys
    /\ out = AttributeError
    /\ contains(fd, NameKeys)
    /\ fd = before

\* C28: when mkdir returns without raising, whatever parents and exist_ok
\* are and whatever the path named before, the path names a directory.
C28_MkdirMakesDirectory ==
    (Did("mkdir") /\ out = NoneOut) => isdir(files, cur)

====
